---- MODULE Spec2Model ----
(***************************************************************************)
(* csv-map-rs: TableMap, a sparse columnar table (src/src/lib.rs).         *)
(*                                                                         *)
(* A table is `columns`, a VecMap (a vector of (key, column) pairs kept in *)
(* insertion order), and `len`, the row count.  A column is a vector of    *)
(* Option<V>.  Strings are sequences of one-character strings, None is the *)
(* empty sequence and Some(v) the one-element sequence <<v>>.  Row indices *)
(* are 0-based as in the source; TLA+ sequences are 1-based, so row        *)
(* `index` is element index + 1 of a column.                               *)
(*                                                                         *)
(* An index out of a Vec's range panics in Rust.  A panic is modelled by   *)
(* the flag `panicked`: the operation stops where it panics, the table     *)
(* keeps what the operation had already written, and nothing runs after.   *)
(***************************************************************************)
EXTENDS Integers, Sequences, FiniteSets, TLC

\* ------------------------------------------------------------------ bounds
MaxRows == 2
MaxOtherRows == 1
MaxTextLen == 8

Keys == {<<"a">>, <<"b">>}
Values == {<<"x">>, <<"y">>}
NoKey == <<>>
NoValue == <<>>

\* ------------------------------------------------------------------ Option
None == <<>>
Some(v) == <<v>>
IsNone(c) == c = None
Cells == {None} \cup {Some(v) : v \in Values}

\* ------------------------------------------------------------------ Vec
Min(S) == CHOOSE x \in S : \A y \in S : x <= y

\* A sequence given as a function on 1..n, as the tuple it is.
Tuple(f) == f \o <<>>

\* Vec::remove(i): shifts the later elements left (i is 1-based here).
VecRemove(s, i) ==
    Tuple([j \in 1..(Len(s) - 1) |-> IF j < i THEN s[j] ELSE s[j + 1]])

\* Vec::swap_remove(i): the last element takes the place of element i.
VecSwapRemove(s, i) ==
    Tuple([j \in 1..(Len(s) - 1) |-> IF j = i THEN s[Len(s)] ELSE s[j]])

Repeat(x, n) == Tuple([j \in 1..n |-> x])

\* ------------------------------------------------------------------ VecMap
\* position of the first pair whose key equals `key`, 0 when there is none.
Position(cols, key) ==
    IF \E i \in 1..Len(cols) : cols[i].key = key
    THEN Min({i \in 1..Len(cols) : cols[i].key = key})
    ELSE 0

KeysOf(cols) == Tuple([i \in 1..Len(cols) |-> cols[i].key])
KeySet(cols) == {cols[i].key : i \in 1..Len(cols)}

\* ------------------------------------------------------------------ TableMap
New == [columns |-> <<>>, len |-> 0]

\* TableEntry::get: the Option at (index, key), or a panic when the column
\* exists and holds no element `index`.
Get(cols, index, key) ==
    LET p == Position(cols, key) IN
    IF p = 0 THEN [panicked |-> FALSE, value |-> None]
    ELSE IF index + 1 > Len(cols[p].cells)
         THEN [panicked |-> TRUE, value |-> None]
         ELSE [panicked |-> FALSE, value |-> cols[p].cells[index + 1]]

\* TableEntry::iter().count(): the number of present cells of row `index`;
\* indexing a column that holds no element `index` panics.
EntryCount(cols, index) ==
    IF \E i \in 1..Len(cols) : index + 1 > Len(cols[i].cells)
    THEN [panicked |-> TRUE, count |-> 0]
    ELSE [panicked |-> FALSE,
          count |-> Cardinality({i \in 1..Len(cols) :
                                    ~IsNone(cols[i].cells[index + 1])})]

\* TableMap::column_mut: the columns with a column for `key` ensured; a new
\* column is pushed last, holding len() None cells.
column_mut(cols, n, key) ==
    IF Position(cols, key) # 0 THEN cols
    ELSE Append(cols, [key |-> key, cells |-> Repeat(None, n)])

\* TableEntryMut::insert: swaps Some(value) into column_mut(key)[index] and
\* returns what the cell held.
insert(cols, n, index, key, value) ==
    LET c1 == column_mut(cols, n, key)
        p == Position(c1, key)
        cells == c1[p].cells
    IN  IF index + 1 > Len(cells)
        THEN [columns |-> c1, len |-> n, panicked |-> TRUE, ret |-> None]
        ELSE [columns |-> [c1 EXCEPT ![p].cells[index + 1] = Some(value)],
              len |-> n, panicked |-> FALSE, ret |-> cells[index + 1]]

\* A mutant of new_entry: the row count grows but no column gets a cell.
new_entry_nopush(cols, n) ==
    [columns |-> cols, len |-> n + 1, panicked |-> FALSE]

\* TableMap::new_entry: len += 1 and a None pushed on every column.
new_entry(cols, n) ==
    [columns |-> Tuple([i \in 1..Len(cols) |->
                          [cols[i] EXCEPT !.cells = Append(@, None)]]),
     len |-> n + 1, panicked |-> FALSE]

\* The loop shared by remove_entry and swap_remove_entry: the columns are
\* visited in order; the first column with no element `index` panics, the
\* columns before it are already shortened and len is not yet decremented.
RemoveWith(cols, n, index, swap) ==
    LET bad == {i \in 1..Len(cols) : index + 1 > Len(cols[i].cells)}
        stop == IF bad = {} THEN Len(cols) + 1 ELSE Min(bad)
    IN  [columns |-> Tuple([i \in 1..Len(cols) |->
                        IF i < stop
                        THEN [cols[i] EXCEPT !.cells =
                                IF swap THEN VecSwapRemove(@, index + 1)
                                        ELSE VecRemove(@, index + 1)]
                        ELSE cols[i]]),
         len |-> IF bad = {} THEN n - 1 ELSE n,
         panicked |-> bad # {}]

\* TableMap::remove_entry
remove_entry(cols, n, index) == RemoveWith(cols, n, index, FALSE)

\* TableMap::swap_remove_entry
swap_remove_entry(cols, n, index) == RemoveWith(cols, n, index, TRUE)

\* VecMap::remove(key), called by cleanup with `key` a reference into the
\* vector's buffer: `slots` is the buffer's keys, slot by slot, as the
\* references of `marked` read them.  The pair is swap-removed: the last
\* pair is copied over it and the vector shrinks; the vacated last slot
\* keeps its bytes.
VecMapRemove(cols, slots, key) ==
    LET p == Position(cols, key) IN
    IF p = 0 THEN [columns |-> cols, slots |-> slots]
    ELSE [columns |-> VecSwapRemove(cols, p),
          slots |-> [slots EXCEPT ![p] = slots[Len(cols)]]]

RECURSIVE RemoveMarked(_, _, _)
\* cleanup's second loop: `for key in marked { self.columns.remove(key) }`,
\* marked being the slots (ascending) of the columns found all-None.
RemoveMarked(cols, slots, marked) ==
    IF marked = <<>> THEN cols
    ELSE LET r == VecMapRemove(cols, slots, slots[Head(marked)])
         IN  RemoveMarked(r.columns, r.slots, Tail(marked))

RECURSIVE SortedSeq(_)
SortedSeq(S) == IF S = {} THEN <<>>
                ELSE <<Min(S)>> \o SortedSeq(S \ {Min(S)})

\* cleanup's first loop: the slots of the columns whose cells are all None.
Marked(cols) ==
    SortedSeq({i \in 1..Len(cols) :
                 \A j \in 1..Len(cols[i].cells) : IsNone(cols[i].cells[j])})

RECURSIVE CleanupRowsSkip(_, _, _)
\* A mutant of cleanup's row loop: `line` advances after a removal too.
CleanupRowsSkip(cols, n, line) ==
    IF line >= n THEN [columns |-> cols, len |-> n, panicked |-> FALSE]
    ELSE LET c == EntryCount(cols, line) IN
         IF c.panicked THEN [columns |-> cols, len |-> n, panicked |-> TRUE]
         ELSE IF c.count = 0
              THEN LET r == remove_entry(cols, n, line)
                   IN  CleanupRowsSkip(r.columns, r.len, line + 1)
              ELSE CleanupRowsSkip(cols, n, line + 1)

RECURSIVE CleanupRows(_, _, _)
\* cleanup's row loop: `while line < self.len()`, a row with no present cell
\* is removed and `line` stays, any other row advances `line`.
CleanupRows(cols, n, line) ==
    IF line >= n THEN [columns |-> cols, len |-> n, panicked |-> FALSE]
    ELSE LET c == EntryCount(cols, line) IN
         IF c.panicked THEN [columns |-> cols, len |-> n, panicked |-> TRUE]
         ELSE IF c.count = 0
              THEN LET r == remove_entry(cols, n, line)
                   IN  CleanupRows(r.columns, r.len, line)
              ELSE CleanupRows(cols, n, line + 1)

\* TableMap::cleanup
cleanup(cols, n) ==
    CleanupRows(RemoveMarked(cols, KeysOf(cols), Marked(cols)), n, 0)

RECURSIVE ConcatColumns(_, _, _)
\* concatenate's loop over other.columns: a column whose key self holds is
\* extended with other's cells; any other is pushed, back-filled with sl
\* None cells.  The columns only self holds are not touched.
ConcatColumns(cols, ocols, sl) ==
    IF ocols = <<>> THEN cols
    ELSE LET o == Head(ocols)
             p == Position(cols, o.key)
         IN  ConcatColumns(
                 IF p # 0
                 THEN [cols EXCEPT ![p].cells = @ \o o.cells]
                 ELSE Append(cols, [key |-> o.key,
                                    cells |-> Repeat(None, sl) \o o.cells]),
                 Tail(ocols), sl)

\* TableMap::concatenate
concatenate(cols, n, other) ==
    [columns |-> ConcatColumns(cols, other.columns, n),
     len |-> n + other.len, panicked |-> FALSE]

\* ------------------------------------------------------------------ inputs
\* The key vectors a VecMap over Keys can hold: keys pairwise distinct.
KeySeqs ==
    {<<>>} \cup {<<k>> : k \in Keys}
           \cup {<<kk[1], kk[2]>> : kk \in {q \in Keys \X Keys : q[1] # q[2]}}

\* The tables of n rows in which every column holds n cells drawn from C.
TablesOf(n, C) ==
    UNION {{[columns |-> Tuple([i \in 1..Len(ks) |->
                                  [key |-> ks[i], cells |-> Tuple(cs[i])]]),
             len |-> n] : cs \in [1..Len(ks) -> [1..n -> C]]} : ks \in KeySeqs}

\* ------------------------------------------------------------------ state
VARIABLES
    columns,    \* TableMap.columns
    len,        \* TableMap.len
    panicked,   \* the last operation panicked
    op,         \* the last operation and its arguments
    pre,        \* the table before the last operation
    ret,        \* what the last insert returned
    built,      \* only new_entry and insert on the last row have run so far
    news,       \* while built: the number of new_entry calls
    seen,       \* while built: the inserted keys in first-insertion order
    written,    \* while built: per row, the value last inserted per key
    file,       \* the file save_ssv writes and load_ssv reads
    writer,     \* the table the last save_ssv wrote the file from
    abc,        \* three tables A, B, C
    sides       \* (A.concatenate(B)).concatenate(C) and A.concatenate(B.concatenate(C))

vars == <<columns, len, panicked, op, pre, ret, built, news, seen, written,
          file, writer, abc, sides>>

NoFile == [exists |-> FALSE, text |-> <<>>]
NoWriter == [saved |-> FALSE, table |-> New]
NoTables == [a |-> New, b |-> New, c |-> New]
NoSides == [done |-> FALSE, left |-> New, right |-> New]

NoOp == [name |-> "new", index |-> 0, key |-> NoKey, value |-> NoValue,
         other |-> New]

Init ==
    /\ columns = <<>>
    /\ len = 0
    /\ panicked = FALSE
    /\ op = NoOp
    /\ pre = New
    /\ ret = None
    /\ built = TRUE
    /\ news = 0
    /\ seen = <<>>
    /\ written = <<>>
    /\ file = NoFile
    /\ writer = NoWriter
    /\ abc = NoTables
    /\ sides = NoSides

Table == [columns |-> columns, len |-> len]

Unbuilt ==
    /\ built' = FALSE
    /\ news' = 0
    /\ seen' = <<>>
    /\ written' = <<>>

Apply(r) ==
    /\ columns' = r.columns
    /\ len' = r.len
    /\ panicked' = r.panicked
    /\ pre' = Table
    /\ UNCHANGED <<file, writer, abc, sides>>

NewEntry ==
    /\ ~panicked
    /\ len < MaxRows
    /\ Apply(new_entry(columns, len))
    /\ op' = [NoOp EXCEPT !.name = "new_entry"]
    /\ ret' = None
    /\ IF built
       THEN /\ news' = news + 1
            /\ written' = Append(written, [k \in Keys |-> None])
            /\ UNCHANGED <<built, seen>>
       ELSE Unbuilt

\* entry_mut(index).insert(key, value), index a row of the table.
Insert ==
    /\ ~panicked
    /\ \E index \in 0..(len - 1), key \in Keys, value \in Values :
         LET r == insert(columns, len, index, key, value) IN
         /\ Apply(r)
         /\ ret' = r.ret
         /\ op' = [NoOp EXCEPT !.name = "insert", !.index = index,
                               !.key = key, !.value = value]
         /\ IF built /\ index = len - 1
            THEN /\ written' = [written EXCEPT ![index + 1][key] = Some(value)]
                 /\ seen' = IF \E i \in 1..Len(seen) : seen[i] = key
                            THEN seen ELSE Append(seen, key)
                 /\ UNCHANGED <<built, news>>
            ELSE Unbuilt

RemoveEntry ==
    /\ ~panicked
    /\ \E index \in 0..(len - 1) :
         /\ Apply(remove_entry(columns, len, index))
         /\ op' = [NoOp EXCEPT !.name = "remove_entry", !.index = index]
    /\ ret' = None
    /\ Unbuilt

SwapRemoveEntry ==
    /\ ~panicked
    /\ \E index \in 0..(len - 1) :
         /\ Apply(swap_remove_entry(columns, len, index))
         /\ op' = [NoOp EXCEPT !.name = "swap_remove_entry", !.index = index]
    /\ ret' = None
    /\ Unbuilt

Cleanup ==
    /\ ~panicked
    /\ Apply(cleanup(columns, len))
    /\ op' = [NoOp EXCEPT !.name = "cleanup"]
    /\ ret' = None
    /\ Unbuilt

\* self.concatenate(other), other a table of at most MaxOtherRows rows.
Concatenate ==
    /\ ~panicked
    /\ \E ol \in 0..MaxOtherRows :
         /\ len + ol <= MaxRows
         /\ \E other \in TablesOf(ol, Cells) :
               /\ Apply(concatenate(columns, len, other))
               /\ op' = [NoOp EXCEPT !.name = "concatenate", !.other = other]
    /\ ret' = None
    /\ Unbuilt

Next ==
    \/ NewEntry
    \/ Insert
    \/ RemoveEntry
    \/ SwapRemoveEntry
    \/ Cleanup
    \/ Concatenate

Spec == Init /\ [][Next]_vars

\* ------------------------------------------------------------------ text
\* A text is a sequence of characters; ";" delimits fields, "\n" ends lines.
TextChars == {"a", "b", ";", "\n"}
Texts == UNION {[1..n -> TextChars] : n \in 0..MaxTextLen}

RECURSIVE SplitOn(_, _)
\* str::split(d): the pieces of s between the occurrences of d, one more
\* than there are occurrences (the empty string splits to one empty piece).
SplitOn(s, d) ==
    IF s = <<>> THEN <<<<>>>>
    ELSE LET r == SplitOn(Tail(s), d) IN
         IF Head(s) = d THEN <<<<>>>> \o r
         ELSE <<(<<Head(s)>> \o Head(r))>> \o Tail(r)

\* BufRead::lines(): the text split at "\n"; a final line needs no "\n", and
\* nothing follows a final "\n".
Lines(text) ==
    LET segs == SplitOn(text, "\n") IN
    IF segs[Len(segs)] = <<>> THEN SubSeq(segs, 1, Len(segs) - 1) ELSE segs

\* ------------------------------------------------------------------ Display
RECURSIVE KeysText(_, _)
\* `for key in keys { write!(f, ";{}", key) }`, from column i on.
KeysText(cols, i) ==
    IF i > Len(cols) THEN <<>>
    ELSE <<";">> \o cols[i].key \o KeysText(cols, i + 1)

CellText(c) == IF IsNone(c) THEN <<>> ELSE c[1]

RECURSIVE RowRest(_, _, _)
\* `for (_key, col) in iterator`: ";" and the value of each column from the
\* second on; col[i] panics on a column with no element i.
RowRest(cols, index, i) ==
    IF i > Len(cols) THEN [text |-> <<>>, panicked |-> FALSE]
    ELSE IF index + 1 > Len(cols[i].cells)
         THEN [text |-> <<>>, panicked |-> TRUE]
         ELSE LET r == RowRest(cols, index, i + 1) IN
              [text |-> <<";">> \o CellText(cols[i].cells[index + 1]) \o r.text,
               panicked |-> r.panicked]

\* One row's line: the first column's value if present, then RowRest, then
\* the line break.
RowText(cols, index) ==
    IF index + 1 > Len(cols[1].cells)
    THEN [text |-> <<>>, panicked |-> TRUE]
    ELSE LET r == RowRest(cols, index, 2) IN
         [text |-> CellText(cols[1].cells[index + 1]) \o r.text
                      \o (IF r.panicked THEN <<>> ELSE <<"\n">>),
          panicked |-> r.panicked]

RECURSIVE RowsText(_, _, _)
\* `for i in 0..self.len()`, from row `index` on.
RowsText(cols, n, index) ==
    IF index >= n THEN [text |-> <<>>, panicked |-> FALSE]
    ELSE LET r == RowText(cols, index) IN
         IF r.panicked THEN r
         ELSE LET q == RowsText(cols, n, index + 1) IN
              [text |-> r.text \o q.text, panicked |-> q.panicked]

\* impl Display for TableMap: nothing for a table without columns; else the
\* keys joined by ";", a line break, and one line per row.  `text` is what
\* was written when the formatting ended or panicked.
Display(cols, n) ==
    IF Len(cols) = 0 THEN [text |-> <<>>, panicked |-> FALSE]
    ELSE LET r == RowsText(cols, n, 0) IN
         [text |-> cols[1].key \o KeysText(cols, 2) \o <<"\n">> \o r.text,
          panicked |-> r.panicked]

\* ------------------------------------------------------------------ load_ssv
\* The header loop: one empty column per field of the first line.
HeaderColumns(keys) ==
    Tuple([i \in 1..Len(keys) |-> [key |-> keys[i], cells |-> <<>>]])

RECURSIVE PushFields(_, _, _)
\* `for (i, value) in line.split(';').enumerate()`: field i is pushed on
\* column i, None when empty; columns.inner_mut()[i] panics when the line
\* has more fields than the header.
PushFields(cols, fields, i) ==
    IF i > Len(fields) THEN [columns |-> cols, panicked |-> FALSE]
    ELSE IF i > Len(cols) THEN [columns |-> cols, panicked |-> TRUE]
    ELSE PushFields(
             [cols EXCEPT ![i].cells =
                 Append(@, IF fields[i] = <<>> THEN None ELSE Some(fields[i]))],
             fields, i + 1)

RECURSIVE LoadLines(_, _, _, _)
\* `for line in lines`: an empty line is skipped, any other is pushed field
\* by field and counted.
LoadLines(cols, n, lines, j) ==
    IF j > Len(lines) THEN [columns |-> cols, len |-> n, panicked |-> FALSE]
    ELSE IF lines[j] = <<>> THEN LoadLines(cols, n, lines, j + 1)
    ELSE LET r == PushFields(cols, SplitOn(lines[j], ";"), 1) IN
         IF r.panicked
         THEN [columns |-> r.columns, len |-> n, panicked |-> TRUE]
         ELSE LoadLines(r.columns, n + 1, lines, j + 1)

\* TableMap::load_ssv on a file that opens, holding `text`:
\* lines.next().unwrap() panics on a file without a line.
load_ssv(text) ==
    LET lines == Lines(text) IN
    IF lines = <<>> THEN [columns |-> <<>>, len |-> 0, panicked |-> TRUE]
    ELSE LoadLines(HeaderColumns(SplitOn(lines[1], ";")), 0, lines, 2)

\* ------------------------------------------------------------------ codec
\* The cells of a string table: absent, the empty string, a string.
StringCells == {None, Some(<<>>), Some(<<"x">>)}

Idle ==
    /\ op = NoOp
    /\ pre = New
    /\ ret = None
    /\ built = FALSE
    /\ news = 0
    /\ seen = <<>>
    /\ written = <<>>

\* Either a table of string cells and no file yet, or a file and no table.
CodecInit ==
    /\ Idle
    /\ panicked = FALSE
    /\ writer = NoWriter
    /\ abc = NoTables
    /\ sides = NoSides
    /\ \/ /\ file = NoFile
          /\ \E n \in 0..MaxRows : \E t \in TablesOf(n, StringCells) :
                columns = t.columns /\ len = t.len
       \/ /\ columns = <<>>
          /\ len = 0
          /\ \E t \in Texts : file = [exists |-> TRUE, text |-> Tuple(t)]

\* table.save_ssv(path): the file is created or truncated, then written.
SaveSsv ==
    /\ ~panicked
    /\ LET d == Display(columns, len) IN
       /\ file' = [exists |-> TRUE, text |-> d.text]
       /\ panicked' = d.panicked
    /\ writer' = [saved |-> TRUE, table |-> Table]
    /\ op' = [NoOp EXCEPT !.name = "save_ssv"]
    /\ pre' = Table
    /\ UNCHANGED <<columns, len, ret, built, news, seen, written, abc, sides>>

\* table = TableMap::load_ssv(path), the file existing.
LoadSsv ==
    /\ ~panicked
    /\ file.exists
    /\ LET r == load_ssv(file.text) IN
       /\ columns' = r.columns
       /\ len' = r.len
       /\ panicked' = r.panicked
    /\ op' = [NoOp EXCEPT !.name = "load_ssv"]
    /\ pre' = Table
    /\ UNCHANGED <<file, writer, ret, built, news, seen, written, abc, sides>>

CodecNext ==
    \/ SaveSsv
    \/ LoadSsv

SpecCodec == CodecInit /\ [][CodecNext]_vars

\* ------------------------------------------------------------------ assoc
MaxPartRows == 1

Parts == UNION {TablesOf(n, Cells) : n \in 0..MaxPartRows}

\* self.concatenate(other) as a table.
Cat(t, other) ==
    LET r == concatenate(t.columns, t.len, other) IN
    [columns |-> r.columns, len |-> r.len]

AssocInit ==
    /\ columns = <<>>
    /\ len = 0
    /\ panicked = FALSE
    /\ Idle
    /\ file = NoFile
    /\ writer = NoWriter
    /\ abc \in [a : Parts, b : Parts, c : Parts]
    /\ sides = NoSides

Associate ==
    /\ ~sides.done
    /\ sides' = [done |-> TRUE,
                 left |-> Cat(Cat(abc.a, abc.b), abc.c),
                 right |-> Cat(abc.a, Cat(abc.b, abc.c))]
    /\ UNCHANGED <<columns, len, panicked, op, pre, ret, built, news, seen,
                   written, file, writer, abc>>

AssocNext == Associate

SpecAssoc == AssocInit /\ [][AssocNext]_vars

\* ------------------------------------------------------------------ views
\* Every column of the table holds exactly n cells.
Rectangular(cols, n) == \A i \in 1..Len(cols) : Len(cols[i].cells) = n

Distinct(ks) == \A i, j \in 1..Len(ks) : i # j => ks[i] # ks[j]

Present(v) == [panicked |-> FALSE, value |-> v]

\* Row `index` reads nothing but None under the keys of K.
RowAbsent(cols, index, K) ==
    \A k \in K : Get(cols, index, k) = Present(None)

\* ------------------------------------------------------------------ C1
\* C1: after any sequence of new_entry, insert, remove_entry,
\* swap_remove_entry and concatenate from the empty table, every column's
\* cell sequence has length exactly len().
RowCountInvariant == ~panicked => Rectangular(columns, len)

\* ------------------------------------------------------------------ C2
ConcatenatePost ==
    LET o == op.other IN
    /\ ~panicked
    /\ len = pre.len + o.len
    /\ KeySet(columns) = KeySet(pre.columns) \cup KeySet(o.columns)
    /\ \A k \in KeySet(columns) :
          /\ \A r \in 0..(pre.len - 1) :
                Get(columns, r, k) = Get(pre.columns, r, k)
          /\ \A r \in 0..(o.len - 1) :
                Get(columns, pre.len + r, k) = Get(o.columns, r, k)

\* C2: concatenate(self, other) yields len = self.len + other.len, the union
\* of both key sets, self's former cells in rows 0..self.len-1 (absent for a
\* key only other had) and other's cells, in other's row order, in the rows
\* after them (absent for a key only self had).
ConcatenateContent == op.name = "concatenate" => ConcatenatePost

\* ------------------------------------------------------------------ C6
RemovePost ==
    LET i == op.index
        n == pre.len
        K == KeySet(pre.columns)
    IN  /\ ~panicked
        /\ len = n - 1
        /\ KeysOf(columns) = KeysOf(pre.columns)
        /\ op.name = "remove_entry" =>
              \A k \in K, j \in 0..(n - 1) :
                 j # i => Get(columns, IF j < i THEN j ELSE j - 1, k)
                              = Get(pre.columns, j, k)
        /\ op.name = "swap_remove_entry" =>
              \A k \in K :
                 /\ \A j \in 0..(n - 2) :
                       j # i => Get(columns, j, k) = Get(pre.columns, j, k)
                 /\ i < n - 1 => Get(columns, i, k) = Get(pre.columns, n - 1, k)

\* C6: for i < n, remove_entry(i) leaves n-1 rows, every surviving row with
\* all its cells and in its relative order; swap_remove_entry(i) leaves n-1
\* rows, every row j # i, j < n-1 in place and the former last row at i.
\* Neither adds or removes a column.
RemoveContent ==
    op.name \in {"remove_entry", "swap_remove_entry"} => RemovePost

\* The same on the tables whose columns all hold len() cells.
RemoveContentRectangular ==
    (/\ op.name \in {"remove_entry", "swap_remove_entry"}
     /\ Rectangular(pre.columns, pre.len)) => RemovePost

\* ------------------------------------------------------------------ C8
InsertPost ==
    LET r == op.index
        q == Position(pre.columns, op.key)
        p == Position(columns, op.key)
        m == Len(pre.columns)
    IN  /\ ~panicked
        /\ len = pre.len
        /\ Distinct(KeysOf(columns))
        /\ IF q = 0
           THEN /\ KeysOf(columns) = Append(KeysOf(pre.columns), op.key)
                /\ Len(columns[m + 1].cells) = len
                /\ \A j \in 1..len :
                      j # r + 1 => columns[m + 1].cells[j] = None
           ELSE KeysOf(columns) = KeysOf(pre.columns)
        /\ Get(columns, r, op.key) = Present(Some(op.value))
        /\ ret = Get(pre.columns, r, op.key).value
        /\ \A i \in 1..m :
              /\ Len(columns[i].cells) = Len(pre.columns[i].cells)
              /\ \A j \in 1..Len(pre.columns[i].cells) :
                    ~(i = p /\ j = r + 1)
                       => columns[i].cells[j] = pre.columns[i].cells[j]

\* C8: insert(key, value) at a valid row r appends exactly one column of
\* len() absent cells when the key is new and none when it exists; in both
\* cases cell (r, key) becomes value, the call returns the cell's previous
\* content, and every other cell, the column order and len() are unchanged.
InsertFrame == op.name = "insert" => InsertPost

\* The same on the tables whose columns all hold len() cells.
InsertFrameRectangular ==
    (op.name = "insert" /\ Rectangular(pre.columns, pre.len)) => InsertPost

\* ------------------------------------------------------------------ C9
AllNone(cells) == \A j \in 1..Len(cells) : IsNone(cells[j])

RECURSIVE KeptRows(_, _, _, _)
\* The rows r..n-1 of cols, in order, that hold a present cell under K.
KeptRows(cols, K, r, n) ==
    IF r >= n THEN <<>>
    ELSE (IF RowAbsent(cols, r, K) THEN <<>> ELSE <<r>>)
            \o KeptRows(cols, K, r + 1, n)

CleanupPost ==
    LET K == {pre.columns[i].key : i \in
                 {i \in 1..Len(pre.columns) : ~AllNone(pre.columns[i].cells)}}
        kept == KeptRows(pre.columns, K, 0, pre.len)
    IN  /\ ~panicked
        /\ KeySet(columns) = K
        /\ Len(columns) = Cardinality(K)
        /\ len = Len(kept)
        /\ \A j \in 1..Len(kept), k \in K :
              Get(columns, j - 1, k) = Get(pre.columns, kept[j], k)
        /\ Rectangular(columns, len)
        /\ \A i \in 1..Len(columns) : ~AllNone(columns[i].cells)
        /\ \A r \in 0..(len - 1) : ~RowAbsent(columns, r, K)

\* C9: cleanup() removes exactly the columns that were all absent, then
\* exactly the rows with no present cell in the remaining columns, adjacent
\* ones included; the surviving rows keep their order and cells, len()
\* drops by the number of removed rows, and afterwards no column and no row
\* is all absent.
CleanupContent == op.name = "cleanup" => CleanupPost

\* The same on the tables whose columns all hold len() cells.
CleanupContentRectangular ==
    (op.name = "cleanup" /\ Rectangular(pre.columns, pre.len)) => CleanupPost

BuiltReadBack ==
    built =>
        /\ ~panicked
        /\ len = news
        /\ KeysOf(columns) = seen
        /\ Distinct(KeysOf(columns))
        /\ \A r \in 0..(len - 1), k \in Keys :
              Get(columns, r, k) = Present(written[r + 1][k])

\* Two rows: the first holds only the first key, the second only a key that
\* the second row created.
BuiltReadBackWitness ==
    /\ built
    /\ len = 2
    /\ Len(seen) = 2
    /\ written[1][seen[1]] # None
    /\ written[1][seen[2]] = None
    /\ written[2][seen[1]] = None
    /\ written[2][seen[2]] # None

\* ------------------------------------------------------------------ C3
\* No key and no value of the table holds a delimiter character.
NoDelimiter(cols) ==
    \A i \in 1..Len(cols) :
       /\ \A j \in 1..Len(cols[i].key) : cols[i].key[j] \notin {";", "\n"}
       /\ \A r \in 1..Len(cols[i].cells) :
             ~IsNone(cols[i].cells[r]) =>
                \A j \in 1..Len(cols[i].cells[r][1]) :
                   cols[i].cells[r][1][j] \notin {";", "\n"}

\* No present cell of the table is the empty string.
NoEmptyString(cols) ==
    \A i \in 1..Len(cols) : \A r \in 1..Len(cols[i].cells) :
       cols[i].cells[r] # Some(<<>>)

\* The last load_ssv read what save_ssv wrote from a table of len() cells
\* per column, without a delimiter in a key or a value.  The case is taken
\* with at least one column and no present empty string: the table without
\* columns (its file has no line to read) and the empty string (written as
\* nothing, read back as absent) do not come back either.
RoundTripCase ==
    /\ op.name = "load_ssv"
    /\ writer.saved
    /\ Rectangular(writer.table.columns, writer.table.len)
    /\ NoDelimiter(writer.table.columns)
    /\ Len(writer.table.columns) >= 1
    /\ NoEmptyString(writer.table.columns)

\* C3: load_ssv of the text save_ssv produced yields a table equal to the
\* saved one: same columns in the same order, same row count, same cells,
\* absent cells absent and present cells present.
RoundTrip == RoundTripCase => (~panicked /\ Table = writer.table)

\* The tables the round trip does return unchanged: those with two columns
\* or more, or with no absent cell.
RoundTripNarrow ==
    (/\ RoundTripCase
     /\ \/ Len(writer.table.columns) >= 2
        \/ \A r \in 1..writer.table.len :
              writer.table.columns[1].cells[r] # None)
        => (~panicked /\ Table = writer.table)

\* ------------------------------------------------------------------ C10
Fields(line) == SplitOn(line, ";")

\* The non-empty lines after the header, in order.
DataLines(text) == SelectSeq(Tail(Lines(text)), LAMBDA l : l # <<>>)

\* The file has a header of distinct non-empty keys, and no data line has
\* more fields than the header.
ShortRowsCase ==
    /\ op.name = "load_ssv"
    /\ Lines(file.text) # <<>>
    /\ Distinct(Fields(Lines(file.text)[1]))
    /\ \A i \in 1..Len(Fields(Lines(file.text)[1])) :
          Fields(Lines(file.text)[1])[i] # <<>>
    /\ \A j \in 1..Len(DataLines(file.text)) :
          Len(Fields(DataLines(file.text)[j]))
             <= Len(Fields(Lines(file.text)[1]))

\* C10: a data line with fewer fields than the header counts as one row,
\* its fields go to the first columns and the trailing columns are absent
\* for that row only: every column holds one cell per decoded row, and the
\* cells of the later lines land in their own row.
ShortRowsPadded ==
    ShortRowsCase =>
        LET data == DataLines(file.text) IN
        /\ ~panicked
        /\ len = Len(data)
        /\ KeysOf(columns) = Fields(Lines(file.text)[1])
        /\ \A i \in 1..Len(columns) :
              /\ Len(columns[i].cells) = len
              /\ \A j \in 1..len :
                    columns[i].cells[j] =
                       IF i <= Len(Fields(data[j])) /\ Fields(data[j])[i] # <<>>
                       THEN Some(Fields(data[j])[i])
                       ELSE None

\* The same on the files whose data lines all have as many fields as the
\* header.
FullRowsLoaded ==
    (/\ ShortRowsCase
     /\ \A j \in 1..Len(DataLines(file.text)) :
           Len(Fields(DataLines(file.text)[j]))
              = Len(Fields(Lines(file.text)[1])))
        => LET data == DataLines(file.text) IN
           /\ ~panicked
           /\ len = Len(data)
           /\ \A i \in 1..Len(columns) :
                 /\ Len(columns[i].cells) = len
                 /\ \A j \in 1..len :
                       columns[i].cells[j] =
                          IF Fields(data[j])[i] # <<>>
                          THEN Some(Fields(data[j])[i])
                          ELSE None

\* ------------------------------------------------------------------ C5
\* C5: (A.concatenate(B)).concatenate(C) and A.concatenate(B.concatenate(C))
\* have the same rows and read the same value, or absence, at every
\* (row, key).  Stated on the reads that return on both sides: a read that
\* panics on a column shorter than len() is left out.
ConcatenateAssociative ==
    sides.done =>
        /\ sides.left.len = sides.right.len
        /\ \A r \in 0..(sides.left.len - 1), k \in Keys :
              LET l == Get(sides.left.columns, r, k)
                  g == Get(sides.right.columns, r, k)
              IN  (~l.panicked /\ ~g.panicked) => l.value = g.value

\* The same for A, B and C with one and the same key vector.
ConcatenateAssociativeSameKeys ==
    (/\ sides.done
     /\ KeysOf(abc.a.columns) = KeysOf(abc.b.columns)
     /\ KeysOf(abc.b.columns) = KeysOf(abc.c.columns))
        => sides.left = sides.right

====
